---- MODULE Spec2Model ----
(***************************************************************************)
(* A model of lib/GitHubFileStorage.js: the revisioned file store (upload, *)
(* deleteFile), the readers of one item (download, getContentBase64), the  *)
(* recursive tree walk (listAllFiles, listFilesInDirectory) and the        *)
(* archive download (downloadAll), run against a remote contents API that  *)
(* answers GET / PUT / DELETE.                                             *)
(*                                                                         *)
(* Strings the code inspects character by character (the upload payload)   *)
(* are sequences of one-character strings.  Every await of the code is a   *)
(* step boundary: an action runs one handler from the answer of one remote *)
(* request up to the next request it sends (or to its return / throw).     *)
(*                                                                         *)
(* Record constructors list their fields in the order in which TLC keeps   *)
(* the fields of a record (the order in which the names first occur in     *)
(* this module), so that every record is built in its normal form.         *)
(***************************************************************************)
EXTENDS Naturals, Integers, Sequences, FiniteSets, TLC

VARIABLES
    remote,   \* the remote store: url -> [exists, content]
    created,  \* the urls at which an item has ever been created
    call,     \* per caller: the call in progress, or the last one it made
    tree,     \* the remote tree under the folder that is walked
    job       \* per caller: its listAllFiles / downloadAll call

storeVars == <<remote, created, call>>
walkVars == <<tree, job>>
vars == <<remote, created, call, tree, job>>

----------------------------------------------------------------------------
(* Strings as sequences of characters, with the String methods upload uses *)

Data == <<"d", "a", "t", "a", ":">>
Base64 == <<"b", "a", "s", "e", "6", "4", ",">>

\* String.prototype.startsWith
StartsWith(s, prefix) ==
    /\ Len(s) >= Len(prefix)
    /\ SubSeq(s, 1, Len(prefix)) = prefix

\* TRUE iff pat occurs in s at the 0-based position i
OccursAt(s, pat, i) ==
    /\ i + Len(pat) <= Len(s)
    /\ SubSeq(s, i + 1, i + Len(pat)) = pat

\* String.prototype.indexOf: 0-based position of the first occurrence, or -1
IndexOf(s, pat) ==
    IF \E i \in 0..Len(s) : OccursAt(s, pat, i)
    THEN CHOOSE i \in 0..Len(s) :
            /\ OccursAt(s, pat, i)
            /\ \A j \in 0..Len(s) : OccursAt(s, pat, j) => i <= j
    ELSE -1

\* String.prototype.slice(start) for start >= 0
Slice(s, start) == IF start >= Len(s) THEN <<>> ELSE SubSeq(s, start + 1, Len(s))

\* a variant that sends the payload as it was given
FileContentRaw(file) == file

\* upload, lines 38-43: the payload sent, after the data-URI clean-up
FileContent(file) ==
    IF StartsWith(file, Data)
    THEN Slice(file, IndexOf(file, Base64) + Len(Base64))
    ELSE file

----------------------------------------------------------------------------
(* Inputs *)

Procs == {"c1", "c2"}

\* payloads offered to upload: empty, two plain ones, one data URI
Files ==
    { <<>>,
      <<"Q">>,
      <<"R">>,
      Data \o <<";">> \o Base64 \o <<"Q">> }

FilePaths == {"", "docs"}
FileNames == {"", "a.txt", "b.txt"}

\* the url of a contents request is `${apiUrl}/${filepath}/${filename}`
Url(filepath, filename) == <<filepath, filename>>

Urls == {Url("docs", "a.txt"), Url("docs", "b.txt")}

----------------------------------------------------------------------------
(* The remote contents API *)

NoSha == [has |-> FALSE, val |-> <<>>]
Sha(v) == [has |-> TRUE, val |-> v]

\* the revision of an item is a hash of its content
ShaOf(content) == <<"#">> \o content

Absent == [content |-> <<>>, exists |-> FALSE]
Stored(content) == [content |-> content, exists |-> TRUE]

\* a request fails with a status other than 404 ("http"), or with no
\* response at all ("net"), or is served ("none")
Faults == {"none", "http", "net"}

Pending == [status |-> "pending", sha |-> NoSha]
Answer(status, sha) == [status |-> status, sha |-> sha]

\* axios: error.response is set iff the server answered
HasResponse(ans) == ans.status \notin {"net", "pending"}

\* GET url
RemoteGet(r, url, fault) ==
    IF fault # "none" THEN Answer(fault, NoSha)
    ELSE IF r[url].exists THEN Answer("ok", Sha(ShaOf(r[url].content)))
    ELSE Answer("404", NoSha)

\* does the store accept a write of url under the precondition sha
PutAccepted(r, url, sha) ==
    IF r[url].exists
    THEN sha.has /\ sha.val = ShaOf(r[url].content)
    ELSE ~sha.has

\* PUT url {content, sha?}: the answer
RemotePut(r, url, content, sha, fault) ==
    IF fault # "none" THEN Answer(fault, NoSha)
    ELSE IF PutAccepted(r, url, sha) THEN Answer("ok", Sha(ShaOf(content)))
    ELSE IF sha.has THEN Answer("conflict", NoSha)
    ELSE Answer("invalid", NoSha)

\* PUT url {content, sha?}: the store afterwards
RemoteAfterPut(r, url, content, sha, fault) ==
    IF fault = "none" /\ PutAccepted(r, url, sha)
    THEN [r EXCEPT ![url] = Stored(content)]
    ELSE r

\* does the store accept a delete of url under the precondition sha
DeleteAccepted(r, url, sha) ==
    r[url].exists /\ sha.has /\ sha.val = ShaOf(r[url].content)

\* DELETE url {sha}: the answer
RemoteDelete(r, url, sha, fault) ==
    IF fault # "none" THEN Answer(fault, NoSha)
    ELSE IF DeleteAccepted(r, url, sha) THEN Answer("ok", NoSha)
    ELSE IF ~r[url].exists THEN Answer("404", NoSha)
    ELSE IF sha.has THEN Answer("conflict", NoSha)
    ELSE Answer("invalid", NoSha)

\* DELETE url {sha}: the store afterwards
RemoteAfterDelete(r, url, sha, fault) ==
    IF fault = "none" /\ DeleteAccepted(r, url, sha)
    THEN [r EXCEPT ![url] = Absent]
    ELSE r

----------------------------------------------------------------------------
(* Calls: what one invocation of upload / deleteFile holds between awaits *)

Req(method, url, sha, content) ==
    [content |-> content, sha |-> sha, ans |-> Pending, url |-> url,
     method |-> method]

NoOut ==
    [prefix |-> "", sha |-> NoSha, kind |-> "none", cause |-> <<"", "">>,
     value |-> NoSha]

\* what a call remembers of the call its caller made just before it
Summary(c) ==
    [file |-> c.file, filepath |-> c.filepath, filename |-> c.filename,
     op |-> c.op, overwrite |-> c.overwrite, out |-> c.out]

NoPrev ==
    [file |-> <<>>, filepath |-> "", filename |-> "", op |-> "none",
     overwrite |-> FALSE, out |-> NoOut]

\* the frame of a call that starts now.  prev: the upload to the same url
\* that the caller completed just before, nothing else having touched the
\* store since; alone: nothing else has touched the store since this call
\* began; wrote: a request of this call has changed the store
NewCall(op, file, filepath, filename, overwrite, prev) ==
    [file |-> file, filepath |-> filepath, filename |-> filename,
     sha |-> NoSha, op |-> op, overwrite |-> overwrite, out |-> NoOut,
     prev |-> prev, pc |-> "idle", fileContent |-> <<>>, reqs |-> <<>>,
     alone |-> TRUE, wrote |-> FALSE]

NoCall == NewCall("none", <<>>, "", "", FALSE, NoPrev)

\* the answer of the request in flight is recorded in the call's log
Answered(c, ans) == [c EXCEPT !.reqs[Len(c.reqs)].ans = ans]

\* the request in flight
InFlight(c) == c.reqs[Len(c.reqs)]

\* send one more request and await its answer at pc
Send(c, pc, req) == [c EXCEPT !.pc = pc, !.reqs = Append(c.reqs, req)]

\* the call rejects: `throw`
Throw(c, prefix, cause) ==
    [c EXCEPT !.pc = "idle",
              !.out = [prefix |-> prefix, sha |-> NoSha, kind |-> "error",
                       cause |-> cause, value |-> NoSha]]

\* the call resolves: `return`
Return(c, kind, sha) ==
    [c EXCEPT !.pc = "idle",
              !.out = [prefix |-> "", sha |-> sha, kind |-> kind,
                       cause |-> <<"", "">>, value |-> NoSha]]

\* the call resolves with a value read from the remote
ReturnValue(c, kind, value) ==
    [c EXCEPT !.pc = "idle",
              !.out = [prefix |-> "", sha |-> NoSha, kind |-> kind,
                       cause |-> <<"", "">>, value |-> value]]

----------------------------------------------------------------------------
(* upload, lines 35-95 *)

\* lines 35-53: validation, clean-up, and the metadata GET is sent
UploadStart(c) ==
    IF c.file = <<>>
    THEN Throw(c, "", <<"upload", "File is required">>)
    ELSE Send([c EXCEPT !.fileContent = FileContent(c.file)], "up_get",
              Req("GET", Url(c.filepath, c.filename), NoSha, <<>>))

\* a variant that keeps the sha the previous call returned
CapturedShaCached(c, ans) ==
    IF c.prev.out.sha.has THEN c.prev.out.sha
    ELSE IF ans.status = "ok" THEN ans.sha ELSE NoSha

\* a variant that never captures the sha
CapturedShaNever(c, ans) == NoSha

\* lines 54-59: the sha captured from the answer of the metadata GET
CapturedSha(c, ans) == IF ans.status = "ok" THEN ans.sha ELSE NoSha

\* line 56: which failures of the metadata GET are rethrown
GetRethrown(ans) == HasResponse(ans) /\ ans.status # "404"

\* a variant that never takes the skipped-exists exit
SkipExistingNever(c, sha) == FALSE

\* lines 61-67: the file exists and must not be overwritten
SkipExisting(c, sha) == sha.has /\ ~c.overwrite

\* a variant whose PUT never carries a sha
PutRequestNoSha(c, sha) ==
    Req("PUT", Url(c.filepath, c.filename), NoSha, c.fileContent)

\* lines 71-84: the PUT carries the sha iff one was captured
PutRequest(c, sha) ==
    Req("PUT", Url(c.filepath, c.filename), sha, c.fileContent)

\* a variant that sends the PUT whatever the overwrite argument is
UploadOnGetAlwaysPut(c, ans) ==
    LET c1 == Answered(c, ans)
        sha == CapturedSha(c, ans)
        c2 == [c1 EXCEPT !.sha = sha]
    IN  IF ans.status # "ok" /\ GetRethrown(ans)
        THEN Throw(c1, "", <<"GET", ans.status>>)
        ELSE Send(c2, "up_put", PutRequest(c2, sha))

\* lines 54-86: from the answer of the metadata GET to the PUT being sent
UploadOnGet(c, ans) ==
    LET c1 == Answered(c, ans)
        sha == CapturedSha(c, ans)
        c2 == [c1 EXCEPT !.sha = sha]
    IN  IF ans.status # "ok" /\ GetRethrown(ans)
        THEN Throw(c1, "", <<"GET", ans.status>>)
        ELSE IF SkipExisting(c, sha)
        THEN Return(c2, "skipped", NoSha)
        ELSE Send(c2, "up_put", PutRequest(c2, sha))

\* a variant that fetches the sha again and retries after a conflict
UploadOnPutRetry(c, ans) ==
    LET c1 == Answered(c, ans)
    IN  IF ans.status = "ok"
        THEN Return(c1, IF c.sha.has THEN "updated" ELSE "created", ans.sha)
        ELSE IF ans.status = "conflict"
        THEN Send(c1, "up_get", Req("GET", Url(c.filepath, c.filename), NoSha, <<>>))
        ELSE Throw(c1, "Error uploading file to GitHub: ", <<"PUT", ans.status>>)

\* a variant that reports success whatever the answer to the PUT is
UploadOnPutSilent(c, ans) ==
    LET c1 == Answered(c, ans)
    IN  Return(c1, IF c.sha.has THEN "updated" ELSE "created", ans.sha)

\* lines 86-94: from the answer of the PUT to the end of the call
UploadOnPut(c, ans) ==
    LET c1 == Answered(c, ans)
    IN  IF ans.status = "ok"
        THEN Return(c1, IF c.sha.has THEN "updated" ELSE "created", ans.sha)
        ELSE Throw(c1, "Error uploading file to GitHub: ", <<"PUT", ans.status>>)

----------------------------------------------------------------------------
(* deleteFile, lines 319-357 *)

\* lines 319-332: validation, and the metadata GET is sent
DeleteStart(c) ==
    IF c.filepath = "" \/ c.filename = ""
    THEN Throw(c, "", <<"deleteFile", "Both filepath and filename are required!">>)
    ELSE Send(c, "del_get", Req("GET", Url(c.filepath, c.filename), NoSha, <<>>))

\* a variant that treats not-found as upload does and deletes anyway
DeleteOnGetLenient(c, ans) ==
    LET c1 == Answered(c, ans)
    IN  IF ans.status \in {"ok", "404"}
        THEN Send([c1 EXCEPT !.sha = ans.sha], "del_del",
                  Req("DELETE", Url(c.filepath, c.filename), ans.sha, <<>>))
        ELSE Throw(c1, "Error deleting file: ", <<"GET", ans.status>>)

\* lines 334-348 and 354-356: from the answer of the GET to the DELETE
DeleteOnGet(c, ans) ==
    LET c1 == Answered(c, ans)
    IN  IF ans.status = "ok"
        THEN Send([c1 EXCEPT !.sha = ans.sha], "del_del",
                  Req("DELETE", Url(c.filepath, c.filename), ans.sha, <<>>))
        ELSE Throw(c1, "Error deleting file: ", <<"GET", ans.status>>)

\* lines 350-356: from the answer of the DELETE to the end of the call
DeleteOnDelete(c, ans) ==
    LET c1 == Answered(c, ans)
    IN  IF ans.status = "ok"
        THEN Return(c1, "deleted", NoSha)
        ELSE Throw(c1, "Error deleting file: ", <<"DELETE", ans.status>>)

----------------------------------------------------------------------------
(* download, lines 189-223, and getContentBase64, lines 162-180 *)

\* a field of a JSON answer: missing (undefined or null), or holding val
Missing == [has |-> FALSE, val |-> <<>>]
Holding(v) == [has |-> TRUE, val |-> v]

\* the truthiness of a field that holds a string, if it holds anything
Truthy(field) == field.has /\ field.val # <<>>

\* the answer to a GET of one item, with the fields the readers look at
ReadAnswer(status, sha, content, download_url) ==
    [content |-> content, status |-> status, sha |-> sha,
     download_url |-> download_url]

\* the forms in which the remote serves an item that exists: its content
\* inline, empty or left out, with or without a download url
Inline(r, url) == {Missing, Holding(<<>>), Holding(r[url].content)}
DownloadUrl(url) == {Missing, Holding(url)}

\* GET url, as answered to download and getContentBase64
RemoteRead(r, url, fault, content, download_url) ==
    IF fault # "none" THEN ReadAnswer(fault, NoSha, Missing, Missing)
    ELSE IF url \in DOMAIN r /\ r[url].exists
    THEN ReadAnswer("ok", Sha(ShaOf(r[url].content)), content, download_url)
    ELSE ReadAnswer("404", NoSha, Missing, Missing)

\* a variant that sends the GET whatever the arguments are
DownloadStartUnchecked(c) ==
    Send(c, "down_get", Req("GET", Url(c.filepath, c.filename), NoSha, <<>>))

\* lines 189-200: validation, and the GET is sent
DownloadStart(c) ==
    IF c.filepath = "" \/ c.filename = ""
    THEN Throw(c, "", <<"download", "Both filepath and filename are required!">>)
    ELSE Send(c, "down_get", Req("GET", Url(c.filepath, c.filename), NoSha, <<>>))

\* a variant that looks at the download url before the content
DownloadOnGetUrlFirst(c, ans) ==
    LET c1 == Answered(c, ans)
    IN  IF ans.status # "ok"
        THEN Throw(c1, "Error downloading file: ", <<"GET", ans.status>>)
        ELSE IF Truthy(ans.download_url)
        THEN ReturnValue(c1, "url", ans.download_url)
        ELSE IF Truthy(ans.content)
        THEN ReturnValue(c1, "data", ans.content)
        ELSE Throw(c1, "Error downloading file: ",
                   <<"download", "File content or download URL not found">>)

\* lines 202-222: from the answer of the GET to the end of the call
DownloadOnGet(c, ans) ==
    LET c1 == Answered(c, ans)
    IN  IF ans.status # "ok"
        THEN Throw(c1, "Error downloading file: ", <<"GET", ans.status>>)
        ELSE IF Truthy(ans.content)
        THEN ReturnValue(c1, "data", ans.content)
        ELSE IF Truthy(ans.download_url)
        THEN ReturnValue(c1, "url", ans.download_url)
        ELSE Throw(c1, "Error downloading file: ",
                   <<"download", "File content or download URL not found">>)

\* lines 162-171: validation, and the GET is sent
GetContentStart(c) ==
    IF c.filepath = "" \/ c.filename = ""
    THEN Throw(c, "", <<"getContentBase64", "Both filepath and filename are required!">>)
    ELSE Send(c, "content_get", Req("GET", Url(c.filepath, c.filename), NoSha, <<>>))

\* lines 173-179: from the answer of the GET to the end of the call
GetContentOnGet(c, ans) ==
    LET c1 == Answered(c, ans)
    IN  IF ans.status # "ok"
        THEN Throw(c1, "Error fetching file content from GitHub: ", <<"GET", ans.status>>)
        ELSE ReturnValue(c1, "content", ans.content)

----------------------------------------------------------------------------
(* The store machine: a caller makes calls one after the other, the remote *)
(* answers each request, and other clients of the repository commit to it  *)

Done(c) == c.pc = "idle" /\ c.op # "none"

\* the caller's previous call, as the call that starts now remembers it
Prev(p, filepath, filename) ==
    IF /\ Done(call[p])
       /\ call[p].alone
       /\ call[p].op = "upload"
       /\ call[p].filepath = filepath
       /\ call[p].filename = filename
    THEN Summary(call[p])
    ELSE NoPrev

\* every call but p's has seen the store touched by someone else
Disturbed(p) ==
    [q \in Procs |-> IF q = p THEN call[q] ELSE [call[q] EXCEPT !.alone = FALSE]]

\* p's call c has run up to its first await (or has thrown already)
Begin(p, c) ==
    /\ call[p].pc = "idle"
    /\ call' = [Disturbed(p) EXCEPT ![p] = c]
    /\ UNCHANGED <<remote, created>>
    /\ UNCHANGED walkVars

\* p's call has run on to c, its request having left the store as r
Advance(p, c, r) ==
    /\ call' = [Disturbed(p) EXCEPT
                  ![p] = [c EXCEPT !.wrote = c.wrote \/ r # remote]]
    /\ remote' = r
    /\ created' = created \cup {u \in Urls : r[u].exists}
    /\ UNCHANGED walkVars

Upload(p) ==
    \E file \in Files, filename \in FileNames \ {""}, overwrite \in BOOLEAN :
        Begin(p, UploadStart(NewCall("upload", file, "docs", filename, overwrite,
                                     Prev(p, "docs", filename))))

UploadGetAnswer(p) ==
    /\ call[p].pc = "up_get"
    /\ \E fault \in Faults :
        LET req == InFlight(call[p])
            ans == RemoteGet(remote, req.url, fault)
        IN  Advance(p, UploadOnGet(call[p], ans), remote)

UploadPutAnswer(p) ==
    /\ call[p].pc = "up_put"
    /\ \E fault \in Faults :
        LET req == InFlight(call[p])
            ans == RemotePut(remote, req.url, req.content, req.sha, fault)
        IN  Advance(p, UploadOnPut(call[p], ans),
                    RemoteAfterPut(remote, req.url, req.content, req.sha, fault))

DeleteFile(p) ==
    \E filepath \in FilePaths, filename \in FileNames :
        Begin(p, DeleteStart(NewCall("deleteFile", <<>>, filepath, filename, FALSE,
                                     NoPrev)))

DeleteGetAnswer(p) ==
    /\ call[p].pc = "del_get"
    /\ \E fault \in Faults :
        LET req == InFlight(call[p])
            ans == RemoteGet(remote, req.url, fault)
        IN  Advance(p, DeleteOnGet(call[p], ans), remote)

DeleteDeleteAnswer(p) ==
    /\ call[p].pc = "del_del"
    /\ \E fault \in Faults :
        LET req == InFlight(call[p])
            ans == RemoteDelete(remote, req.url, req.sha, fault)
        IN  Advance(p, DeleteOnDelete(call[p], ans),
                    RemoteAfterDelete(remote, req.url, req.sha, fault))

Download(p) ==
    \E filepath \in FilePaths, filename \in FileNames :
        Begin(p, DownloadStart(NewCall("download", <<>>, filepath, filename, FALSE,
                                       NoPrev)))

DownloadGetAnswer(p) ==
    /\ call[p].pc = "down_get"
    /\ \E fault \in Faults :
        LET url == InFlight(call[p]).url
        IN  \E content \in Inline(remote, url), download_url \in DownloadUrl(url) :
                Advance(p, DownloadOnGet(call[p],
                              RemoteRead(remote, url, fault, content, download_url)),
                        remote)

GetContentBase64(p) ==
    \E filepath \in FilePaths, filename \in FileNames :
        Begin(p, GetContentStart(NewCall("getContentBase64", <<>>, filepath, filename,
                                         FALSE, NoPrev)))

GetContentAnswer(p) ==
    /\ call[p].pc = "content_get"
    /\ \E fault \in Faults :
        LET url == InFlight(call[p]).url
        IN  \E content \in Inline(remote, url), download_url \in DownloadUrl(url) :
                Advance(p, GetContentOnGet(call[p],
                              RemoteRead(remote, url, fault, content, download_url)),
                        remote)

\* another client of the repository creates, rewrites or deletes an item
OtherClient ==
    \E u \in Urls, item \in {Absent} \cup {Stored(FileContent(f)) : f \in Files \ {<<>>}} :
        /\ item # remote[u]
        /\ remote' = [remote EXCEPT ![u] = item]
        /\ created' = created \cup {v \in Urls : remote'[v].exists}
        /\ call' = [q \in Procs |-> [call[q] EXCEPT !.alone = FALSE]]
        /\ UNCHANGED walkVars

----------------------------------------------------------------------------
(* The remote tree.  A listing is a sequence of entries in the order the   *)
(* contents API returns them; a directory entry holds its own listing.     *)

MaxDepth == 2
MaxEntries == 5

Root == <<"docs">>
LeafNames == {"a.txt", "b.txt"}
DirNames == {"sub", "lib"}

FileEntry(name) == [name |-> name, type |-> "file", children |-> <<>>]
DirEntry(name, children) == [name |-> name, type |-> "dir", children |-> children]

RECURSIVE Size(_)
\* the number of entries of a listing, nested ones included
Size(listing) ==
    IF listing = <<>> THEN 0
    ELSE 1 + Size(Head(listing).children) + Size(Tail(listing))

Names(listing) == {listing[i].name : i \in 1..Len(listing)}

RECURSIVE Listings(_, _)
\* the listings nested at most d deep that hold at most n entries, the
\* names within one directory being distinct and every directory below
\* the listed one holding at least one entry (as in a git tree)
Listings(d, n) ==
    IF n = 0 THEN {<<>>}
    ELSE LET first == {FileEntry(nm) : nm \in LeafNames} \cup
                      (IF d = 0 THEN {}
                       ELSE {DirEntry(nm, sub) : nm \in DirNames,
                                                 sub \in Listings(d - 1, n - 1) \ {<<>>}})
         IN  {<<>>} \cup
             UNION { { <<e>> \o rest :
                         rest \in {r \in Listings(d, n - 1 - Size(e.children)) :
                                      e.name \notin Names(r)} } :
                     e \in first }

Trees == Listings(MaxDepth, MaxEntries)

RECURSIVE ChildrenAt(_, _)
\* the listing of the directory reached from listing along the names rel
ChildrenAt(listing, rel) ==
    IF rel = <<>> THEN listing
    ELSE LET i == CHOOSE k \in 1..Len(listing) : listing[k].name = Head(rel)
         IN  ChildrenAt(listing[i].children, Tail(rel))

\* the raw bytes served at a download url
BytesOf(url) == <<"bytes of">> \o url

\* the items of the answer to GET `${apiUrl}/${path}` for a directory
Items(listing, path) ==
    [i \in 1..Len(listing) |->
        [name |-> listing[i].name,
         sha |-> IF listing[i].type = "file"
                 THEN ShaOf(BytesOf(path \o <<listing[i].name>>))
                 ELSE ShaOf(path \o <<listing[i].name>>),
         type |-> listing[i].type,
         path |-> path \o <<listing[i].name>>,
         download_url |-> IF listing[i].type = "file"
                          THEN path \o <<listing[i].name>>
                          ELSE <<>>]]

\* GET `${apiUrl}/${path}`, path being Root or a directory below it
RemoteList(t, path, fault) ==
    IF fault # "none" THEN [data |-> <<>>, status |-> fault]
    ELSE [data |-> Items(ChildrenAt(t, SubSeq(path, Len(Root) + 1, Len(path))), path),
          status |-> "ok"]

\* GET file.url with responseType arraybuffer
RemoteFetch(url, fault) ==
    IF fault # "none" THEN [data |-> <<>>, status |-> fault]
    ELSE [data |-> BytesOf(url), status |-> "ok"]

----------------------------------------------------------------------------
(* The local file system: paths are sequences of segments *)

\* the directories downloadAll is given to store the archive in
StoragePaths == {"", "downloads"}

\* path.join: empty and "." segments are dropped, and nothing is "."
PathJoin(parts) ==
    LET kept == SelectSeq(parts, LAMBDA x : x # "" /\ x # ".")
    IN  IF kept = <<>> THEN <<".">> ELSE kept

\* line 274: the file the archive is written to
ZipFilePath(storagePath) == PathJoin(PathJoin(<<storagePath>>) \o <<"output.zip">>)

----------------------------------------------------------------------------
(* listAllFiles (lines 129-153), listFilesInDirectory (lines 231-254) and  *)
(* downloadAll (lines 263-310)                                             *)

NoResult ==
    [prefix |-> "", kind |-> "none", cause |-> <<"", "">>, files |-> <<>>,
     zipFilePath |-> <<>>]

\* the output stream and the archiver piped into it: open from line 275 on,
\* finalized by line 293, closed once the stream has emitted close
NoArchive ==
    [zipFilePath |-> <<>>, open |-> FALSE, entries |-> <<>>, finalized |-> FALSE,
     closed |-> FALSE]

NoJob ==
    [status |-> "idle", op |-> "none", reqs |-> <<>>, storagePath |-> "",
     files |-> <<>>, stack |-> <<>>, idx |-> 1, archive |-> NoArchive,
     result |-> NoResult]

WalkReq(what, url) == [status |-> "pending", url |-> url, what |-> what]

\* the request in flight is answered
JobAnswered(j, status) == [j EXCEPT !.reqs[Len(j.reqs)].status = status]

\* the promise of the call rejects
Reject(j, prefix, cause) ==
    [j EXCEPT !.status = "rejected",
              !.result = [prefix |-> prefix, kind |-> "error", cause |-> cause,
                          files |-> <<>>, zipFilePath |-> <<>>]]

\* a variant that takes every item for a file
IsDirNever(item) == FALSE

\* lines 137 and 240: the item is a directory
IsDir(item) == item.type = "dir"

\* lines 140-146 and 243-247: the descriptor pushed for a file
Descriptor(op, item) ==
    IF op = "listAllFiles"
    THEN [name |-> item.name, sha |-> item.sha, url |-> item.download_url,
          type |-> item.type, path |-> item.path]
    ELSE [name |-> item.name, url |-> item.download_url, path |-> item.path]

\* line 138 calls getFilesInDirectory.call(this, item.path); line 241 calls
\* getFiles(item.path), in which `this` is undefined
BindsThis(op) == op = "listAllFiles"

\* a failure inside the walk: listAllFiles lets it through, downloadAll
\* catches it at line 307
WalkFail(j, cause) ==
    Reject(j, IF j.op = "downloadAll" THEN "Error downloading files: " ELSE "", cause)

\* lines 132 and 235: the listing of path is requested, if `this` is bound
SendList(j, path, bound) ==
    IF bound
    THEN [j EXCEPT !.status = "listing",
                   !.reqs = Append(j.reqs, WalkReq("list", path))]
    ELSE WalkFail(j, <<"TypeError", "this is undefined">>)

\* a variant that resolves as soon as finalize() has returned
DownloadNextResolveOnFinalize(j) ==
    IF j.idx > Len(j.files)
    THEN [j EXCEPT !.status = "resolved", !.archive.finalized = TRUE,
                   !.result = [prefix |-> "", kind |-> "zip", cause |-> <<"", "">>,
                               files |-> <<>>,
                               zipFilePath |-> j.archive.zipFilePath]]
    ELSE [j EXCEPT !.status = "fetching",
                   !.reqs = Append(j.reqs, WalkReq("fetch", j.files[j.idx].url))]

\* a variant that requests the files from the last one to the first
DownloadNextBackwards(j) ==
    IF j.idx > Len(j.files)
    THEN [j EXCEPT !.status = "closing", !.archive.finalized = TRUE]
    ELSE [j EXCEPT !.status = "fetching",
                   !.reqs = Append(j.reqs,
                       WalkReq("fetch", j.files[Len(j.files) + 1 - j.idx].url))]

\* lines 282-293: the next file is requested, or the archive is finalized
DownloadNext(j) ==
    IF j.idx > Len(j.files)
    THEN [j EXCEPT !.status = "closing", !.archive.finalized = TRUE]
    ELSE [j EXCEPT !.status = "fetching",
                   !.reqs = Append(j.reqs, WalkReq("fetch", j.files[j.idx].url))]

\* lines 152 and 253-279: the walk is over
WalkDone(j) ==
    IF j.op \in {"listAllFiles", "listFilesInDirectory"}
    THEN [j EXCEPT !.status = "resolved",
                   !.result = [prefix |-> "", kind |-> "files",
                               cause |-> <<"", "">>, files |-> j.files,
                               zipFilePath |-> <<>>]]
    ELSE DownloadNext([j EXCEPT !.archive =
                          [zipFilePath |-> ZipFilePath(j.storagePath),
                           open |-> TRUE, entries |-> <<>>, finalized |-> FALSE,
                           closed |-> FALSE]])

RECURSIVE RunWalk(_)
\* lines 136-148 and 239-249: the loops over the listings run on until the
\* next listing is requested or the outermost loop ends
RunWalk(j) ==
    IF j.stack = <<>> THEN WalkDone(j)
    ELSE LET n == Len(j.stack)
             top == j.stack[n]
         IN  IF top.i > Len(top.items)
             THEN IF n = 1
                  THEN WalkDone([j EXCEPT !.stack = <<>>])
                  ELSE RunWalk([j EXCEPT !.stack =
                                   [SubSeq(j.stack, 1, n - 1) EXCEPT ![n - 1].i = @ + 1]])
             ELSE IF IsDir(top.items[top.i])
             THEN SendList(j, top.items[top.i].path, BindsThis(j.op))
             ELSE RunWalk([j EXCEPT !.files = Append(@, Descriptor(j.op, top.items[top.i])),
                                    !.stack[n].i = @ + 1])

\* a variant that skips a directory whose listing failed and walks on
OnListAnswerSkip(j, ans) ==
    LET j1 == JobAnswered(j, ans.status)
        n == Len(j.stack)
    IN  IF ans.status # "ok"
        THEN IF n = 0 THEN WalkDone(j1)
             ELSE RunWalk([j1 EXCEPT !.stack[n].i = @ + 1])
        ELSE RunWalk([j1 EXCEPT !.stack = Append(@, [items |-> ans.data, i |-> 1])])

\* a variant that walks every listing from its last item to its first
OnListAnswerReversed(j, ans) ==
    LET j1 == JobAnswered(j, ans.status)
        n == Len(ans.data)
    IN  IF ans.status # "ok"
        THEN WalkFail(j1, <<"GET", ans.status>>)
        ELSE RunWalk([j1 EXCEPT !.stack =
                        Append(@, [items |-> [k \in 1..n |-> ans.data[n + 1 - k]],
                                   i |-> 1])])

\* lines 132-136 and 235-239: the answer to a listing request
OnListAnswer(j, ans) ==
    LET j1 == JobAnswered(j, ans.status)
    IN  IF ans.status # "ok"
        THEN WalkFail(j1, <<"GET", ans.status>>)
        ELSE RunWalk([j1 EXCEPT !.stack = Append(@, [items |-> ans.data, i |-> 1])])

\* a variant that names every entry after the first file of the list
EntryNameOfFirst(files, k) == files[1].name

\* line 289: the entry of the k-th file is named { name: file.name }
EntryName(files, k) == files[k].name

\* a variant that leaves out a file whose retrieval failed and goes on
OnFetchAnswerSkip(j, ans) ==
    LET j1 == JobAnswered(j, ans.status)
    IN  IF ans.status # "ok"
        THEN DownloadNext([j1 EXCEPT !.idx = @ + 1])
        ELSE DownloadNext(
                [j1 EXCEPT !.archive.entries =
                               Append(@, [name |-> EntryName(j.files, j.idx), data |-> ans.data]),
                           !.idx = @ + 1])

\* lines 283-290 and 307-309: the answer to the request of a file
OnFetchAnswer(j, ans) ==
    LET j1 == JobAnswered(j, ans.status)
    IN  IF ans.status # "ok"
        THEN Reject(j1, "Error downloading files: ", <<"GET", ans.status>>)
        ELSE DownloadNext(
                [j1 EXCEPT !.archive.entries =
                               Append(@, [name |-> EntryName(j.files, j.idx), data |-> ans.data]),
                           !.idx = @ + 1])

\* lines 129-132 and 151: listAllFiles(filepath) up to its first await
ListAllFilesStart(filepath) ==
    SendList([NoJob EXCEPT !.op = "listAllFiles"], filepath, TRUE)

\* lines 231-235 and 252: listFilesInDirectory(filepath) up to its first await
ListFilesInDirectoryStart(filepath) ==
    SendList([NoJob EXCEPT !.op = "listFilesInDirectory"], filepath, TRUE)

\* lines 263-265, 231-235 and 252: downloadAll(filepath, storagePath) up to
\* its first await
DownloadAllStart(filepath, storagePath) ==
    SendList([NoJob EXCEPT !.op = "downloadAll", !.storagePath = storagePath],
             filepath, TRUE)

\* lines 297-299: the output stream has emitted close, and the listener
\* resolves the promise with the path of the archive
OnOutputClose(j) ==
    [j EXCEPT !.status = "resolved",
              !.archive.closed = TRUE,
              !.result = [prefix |-> "", kind |-> "zip", cause |-> <<"", "">>,
                          files |-> <<>>, zipFilePath |-> j.archive.zipFilePath]]

\* lines 302-304: the archiver has emitted error
OnArchiveError(j) == Reject(j, "Error creating ZIP: ", <<"archive", "error">>)

\* an error event for which the call has registered no listener, emitted
\* outside the call's own stack: an uncaught exception, which ends the
\* process with the promise of the call unsettled
Uncaught(j) == [j EXCEPT !.status = "crashed"]

\* lines 275-279: the output stream has failed.  The call registers no
\* listener for its error event; what the runtime makes of it depends on
\* the stream implementation the archiver pipes with: either the error is
\* uncaught, or the handler of pipe() passes it to destroy() and the stream,
\* unpiped, emits close - to the listener of line 297 if that is
\* registered by then, to nobody otherwise
OutputErrorOutcomes == {"uncaught", "destroyed"}

OnOutputError(j, outcome) ==
    IF outcome = "uncaught" THEN Uncaught(j)
    ELSE IF j.status = "closing" THEN OnOutputClose(j)
    ELSE [j EXCEPT !.archive.closed = TRUE]

----------------------------------------------------------------------------
(* The walk machine *)

JobStep(p, j) ==
    /\ job' = [job EXCEPT ![p] = j]
    /\ UNCHANGED <<tree, remote, created, call>>

ListAllFiles(p) ==
    /\ job[p].status = "idle"
    /\ JobStep(p, ListAllFilesStart(Root))

ListFilesInDirectory(p) ==
    /\ job[p].status = "idle"
    /\ JobStep(p, ListFilesInDirectoryStart(Root))

DownloadAll(p) ==
    /\ job[p].status = "idle"
    /\ \E storagePath \in StoragePaths :
        JobStep(p, DownloadAllStart(Root, storagePath))

ListAnswer(p) ==
    /\ job[p].status = "listing"
    /\ \E fault \in Faults :
        JobStep(p, OnListAnswer(job[p],
                       RemoteList(tree, job[p].reqs[Len(job[p].reqs)].url, fault)))

FetchAnswer(p) ==
    /\ job[p].status = "fetching"
    /\ \E fault \in Faults :
        JobStep(p, OnFetchAnswer(job[p],
                       RemoteFetch(job[p].reqs[Len(job[p].reqs)].url, fault)))

\* lines 297-299: the output stream emits close once the finalized archive
\* has been written out
OutputClose(p) ==
    /\ job[p].status = "closing"
    /\ job[p].archive.finalized
    /\ ~job[p].archive.closed
    /\ JobStep(p, OnOutputClose(job[p]))

\* lines 302-304: the archiver emits error
ArchiveError(p) ==
    /\ job[p].status = "closing"
    /\ JobStep(p, OnArchiveError(job[p]))

\* the archiver emits error while the files are still being retrieved,
\* before line 302 has registered the listener
ArchiveErrorEarly(p) ==
    /\ job[p].status = "fetching"
    /\ job[p].archive.open
    /\ JobStep(p, Uncaught(job[p]))

\* the output stream fails at some moment between its creation and its
\* close event
OutputError(p) ==
    /\ job[p].status \in {"fetching", "closing"}
    /\ job[p].archive.open
    /\ ~job[p].archive.closed
    /\ \E outcome \in OutputErrorOutcomes :
        JobStep(p, OnOutputError(job[p], outcome))

----------------------------------------------------------------------------
(* Specifications *)

StoreInit ==
    /\ remote = [u \in Urls |-> Absent]
    /\ created = {}
    /\ call = [p \in Procs |-> NoCall]

NoJobs == job = [p \in Procs |-> NoJob]

Caller == "c1"

\* the payloads of the content machine: every string made of at most
\* MaxPieces of these pieces
MaxPieces == 4

Mime == <<"m", ";">>
Pieces == {Data, Base64, Mime, <<"Q">>, <<"R">>}

RECURSIVE Concat(_)
Concat(n) ==
    IF n = 0 THEN {<<>>}
    ELSE LET shorter == Concat(n - 1)
         IN  shorter \cup {piece \o rest : piece \in Pieces, rest \in shorter}

Contents == Concat(MaxPieces)

\* the content machine: one upload of any payload to a path that is free
UploadContent(p) ==
    /\ call[p].op = "none"
    /\ \E file \in Contents, overwrite \in BOOLEAN :
        Begin(p, UploadStart(NewCall("upload", file, "docs", "a.txt", overwrite,
                                     NoPrev)))

NextContent ==
    \/ UploadContent(Caller)
    \/ UploadGetAnswer(Caller)
    \/ UploadPutAnswer(Caller)

\* the store machine: one caller of upload / deleteFile, and other clients
Init ==
    /\ StoreInit
    /\ tree = <<>>
    /\ NoJobs

Next ==
    \/ Upload(Caller)
    \/ UploadGetAnswer(Caller)
    \/ UploadPutAnswer(Caller)
    \/ DeleteFile(Caller)
    \/ DeleteGetAnswer(Caller)
    \/ DeleteDeleteAnswer(Caller)
    \/ OtherClient

Spec == Init /\ [][Next]_vars

SpecContent == Init /\ [][NextContent]_vars

\* the read machine: one caller of every operation on single items
NextRead ==
    \/ Upload(Caller)
    \/ UploadGetAnswer(Caller)
    \/ UploadPutAnswer(Caller)
    \/ DeleteFile(Caller)
    \/ DeleteGetAnswer(Caller)
    \/ DeleteDeleteAnswer(Caller)
    \/ Download(Caller)
    \/ DownloadGetAnswer(Caller)
    \/ GetContentBase64(Caller)
    \/ GetContentAnswer(Caller)

SpecRead == Init /\ [][NextRead]_vars

\* the race machine: two callers each make one call on the same path, the
\* second call starting while the first is still running; the path is
\* free or holds a file already
RaceFiles == {<<"Q">>, <<"R">>}

InitRace ==
    /\ \E item \in {Absent, Stored(<<"Q">>)} :
          remote = [u \in Urls |-> IF u = Url("docs", "a.txt") THEN item ELSE Absent]
    /\ created = {u \in Urls : remote[u].exists}
    /\ call = [p \in Procs |-> NoCall]
    /\ tree = <<>>
    /\ NoJobs

\* p has made no call yet, and no other caller has completed one
MayJoin(p) ==
    /\ call[p].op = "none"
    /\ \A q \in Procs \ {p} : ~Done(call[q])

UploadRace(p) ==
    /\ MayJoin(p)
    /\ \E file \in RaceFiles, overwrite \in BOOLEAN :
        Begin(p, UploadStart(NewCall("upload", file, "docs", "a.txt", overwrite,
                                     NoPrev)))

DeleteRace(p) ==
    /\ MayJoin(p)
    /\ Begin(p, DeleteStart(NewCall("deleteFile", <<>>, "docs", "a.txt", FALSE,
                                    NoPrev)))

NextRace ==
    \E p \in Procs :
        \/ UploadRace(p)
        \/ UploadGetAnswer(p)
        \/ UploadPutAnswer(p)
        \/ DeleteRace(p)
        \/ DeleteGetAnswer(p)
        \/ DeleteDeleteAnswer(p)

SpecRace == InitRace /\ [][NextRace]_vars

\* the walk machine: one caller of listAllFiles / downloadAll on any tree
InitWalk ==
    /\ StoreInit
    /\ tree \in Trees
    /\ NoJobs

NextWalk ==
    \/ ListAllFiles(Caller)
    \/ DownloadAll(Caller)
    \/ ListAnswer(Caller)
    \/ FetchAnswer(Caller)
    \/ OutputClose(Caller)
    \/ ArchiveError(Caller)

SpecWalk == InitWalk /\ [][NextWalk]_vars

\* two concurrent callers of downloadAll (two requests of GET /downloadall)
MaxPairEntries == 3

PairTrees == Listings(1, MaxPairEntries)

InitPair ==
    /\ StoreInit
    /\ tree \in PairTrees
    /\ NoJobs

NextPair ==
    \E p \in Procs :
        \/ DownloadAll(p)
        \/ ListAnswer(p)
        \/ FetchAnswer(p)
        \/ OutputClose(p)
        \/ ArchiveError(p)

SpecPair == InitPair /\ [][NextPair]_vars

\* the two walks, run by two callers on the same tree
NextBoth ==
    \E p \in Procs :
        \/ ListAllFiles(p)
        \/ ListFilesInDirectory(p)
        \/ ListAnswer(p)

SpecBoth == InitPair /\ [][NextBoth]_vars

\* the settling machine: one downloadAll call with the failures of the
\* output stream and of the archiver; every request is answered in the end
\* and a stream that can close does close, but no failure has to happen
NextSettle ==
    \/ DownloadAll(Caller)
    \/ ListAnswer(Caller)
    \/ FetchAnswer(Caller)
    \/ OutputClose(Caller)
    \/ ArchiveError(Caller)
    \/ ArchiveErrorEarly(Caller)
    \/ OutputError(Caller)

SpecSettle ==
    /\ InitPair
    /\ [][NextSettle]_vars
    /\ WF_vars(ListAnswer(Caller))
    /\ WF_vars(FetchAnswer(Caller))
    /\ WF_vars(OutputClose(Caller))

----------------------------------------------------------------------------
(* Properties of upload and deleteFile *)

\* the positions of the requests of one method in a call's log
Sent(c, method) == {i \in 1..Len(c.reqs) : c.reqs[i].method = method}

\* the remote served every request of the call (no injected failure)
Served(c) ==
    \A i \in 1..Len(c.reqs) : c.reqs[i].ans.status \notin {"http", "net", "pending"}

\* the metadata GET of the call failed with something other than not-found
GetFailed(c) ==
    /\ Len(c.reqs) >= 1
    /\ c.reqs[1].ans.status \in {"http", "net"}

\* C1: when the metadata GET of an upload fails with anything other than
\* 404, a failure without an HTTP response included, the failure is
\* propagated and no PUT is issued.
C1_GetFailurePropagates ==
    \A p \in Procs :
        LET c == call[p]
        IN  (c.op = "upload" /\ GetFailed(c)) =>
                /\ Sent(c, "PUT") = {}
                /\ c.out.kind = "error"
                /\ c.out.cause = <<"GET", c.reqs[1].ans.status>>

\* an upload with overwrite=false that follows at once an upload with the
\* same arguments that created the file or found it there
SecondUploadNoOverwrite(c) ==
    /\ Done(c)
    /\ c.op = "upload"
    /\ ~c.overwrite
    /\ c.alone
    /\ c.prev.op = "upload"
    /\ c.prev.file = c.file
    /\ ~c.prev.overwrite
    /\ c.prev.out.kind \in {"created", "skipped"}
    /\ Served(c)

\* C3: an upload with overwrite=false followed immediately by a second
\* upload with the same arguments makes the second call return the
\* skipped-exists outcome (data null) without issuing a PUT, so that the
\* remote state is unchanged by it.
C3_SecondUploadSkipped ==
    \A p \in Procs :
        LET c == call[p]
        IN  SecondUploadNoOverwrite(c) =>
                /\ c.out.kind = "skipped"
                /\ c.out.sha = NoSha
                /\ Sent(c, "PUT") = {}
                /\ ~c.wrote

C3_Witness ==
    \E p \in Procs :
        /\ SecondUploadNoOverwrite(call[p])
        /\ call[p].prev.out.kind = "created"
        /\ call[p].out.kind = "skipped"
        /\ remote[Url(call[p].filepath, call[p].filename)].exists

\* an upload with overwrite=true that follows at once an upload with
\* overwrite=true to the same url that created the file
SecondUploadOverwrite(c) ==
    /\ Done(c)
    /\ c.op = "upload"
    /\ c.file # <<>>
    /\ c.overwrite
    /\ c.alone
    /\ c.prev.op = "upload"
    /\ c.prev.overwrite
    /\ c.prev.out.kind = "created"
    /\ Served(c)

\* C4 (as stated): two sequential uploads of the same content with
\* overwrite=true to a path that did not exist yield created then updated,
\* and the second revision differs from the first.
C4_RevisionDiffers ==
    \A p \in Procs :
        LET c == call[p]
        IN  (SecondUploadOverwrite(c) /\ c.prev.file = c.file) =>
                /\ c.out.kind = "updated"
                /\ c.out.sha # c.prev.out.sha

\* C4 (amended): two sequential uploads with overwrite=true to a path that
\* did not exist yield created then updated, the second PUT carrying the
\* revision the first returned; the revision returned by the second equals
\* the first's when the two calls store the same content, and differs from
\* it exactly when the contents differ.
C4_CreatedThenUpdated ==
    \A p \in Procs :
        LET c == call[p]
        IN  SecondUploadOverwrite(c) =>
                /\ c.out.kind = "updated"
                /\ c.out.sha.has
                /\ c.reqs[2].sha = c.prev.out.sha
                /\ (c.out.sha = c.prev.out.sha)
                      <=> (FileContent(c.file) = FileContent(c.prev.file))

C4_Witness ==
    \E p \in Procs :
        /\ SecondUploadOverwrite(call[p])
        /\ call[p].prev.file = call[p].file
        /\ call[p].out.kind = "updated"
        /\ call[p].out.sha = call[p].prev.out.sha

\* C5: every PUT of an upload carries a sha if and only if the metadata
\* GET of the same call found an item, and the sha sent is exactly the one
\* that GET returned.
C5_PutShaIffFound ==
    \A p \in Procs :
        LET c == call[p]
        IN  \A i \in Sent(c, "PUT") :
                /\ i > 1
                /\ c.reqs[i - 1].method = "GET"
                /\ c.reqs[i].sha.has <=> (c.reqs[i - 1].ans.status = "ok")
                /\ c.reqs[i].sha = c.reqs[i - 1].ans.sha

C5_Witness ==
    \E p \in Procs :
        /\ Done(call[p])
        /\ call[p].prev.out.kind = "created"
        /\ call[p].out.kind = "updated"
        /\ call[p].reqs[2].sha.has
        /\ call[p].reqs[2].sha = call[p].reqs[1].ans.sha

\* C6: every PUT and every DELETE is preceded, inside the same call, by a
\* metadata GET of the same path, and carries the revision that GET
\* returned (never one of an earlier call); a DELETE always carries a
\* resolved revision.
C6_WriteAfterFreshGet ==
    \A p \in Procs :
        LET c == call[p]
        IN  \A i \in Sent(c, "PUT") \cup Sent(c, "DELETE") :
                /\ i > 1
                /\ c.reqs[i - 1].method = "GET"
                /\ c.reqs[i - 1].url = c.reqs[i].url
                /\ c.reqs[i].url = Url(c.filepath, c.filename)
                /\ c.reqs[i].sha = c.reqs[i - 1].ans.sha
                /\ (c.reqs[i].method = "DELETE" => c.reqs[i].sha.has)

C6_Witness ==
    \E p \in Procs :
        /\ call[p].op = "deleteFile"
        /\ call[p].out.kind = "deleted"
        /\ call[p].reqs[2].method = "DELETE"
        /\ call[p].reqs[2].sha = call[p].reqs[1].ans.sha
        /\ call[p].wrote

\* C7: when the remote rejects the PUT because its revision is stale,
\* upload ends with an error and does not retry: every upload issues at
\* most one metadata GET and at most one PUT.
C7_NoRetry ==
    \A p \in Procs :
        LET c == call[p]
        IN  c.op = "upload" =>
                /\ Cardinality(Sent(c, "GET")) <= 1
                /\ Cardinality(Sent(c, "PUT")) <= 1
                /\ \A i \in Sent(c, "PUT") :
                      c.reqs[i].ans.status = "conflict" =>
                          /\ c.pc = "idle"
                          /\ c.out.kind = "error"
                          /\ c.out.cause = <<"PUT", "conflict">>

C7_Witness ==
    \E p \in Procs :
        /\ Done(call[p])
        /\ call[p].op = "upload"
        /\ Len(call[p].reqs) = 2
        /\ call[p].reqs[2].ans.status = "conflict"

\* a deleteFile of a path at which nothing was ever created
DeleteOfNeverCreated(c) ==
    /\ Done(c)
    /\ c.op = "deleteFile"
    /\ c.filepath # ""
    /\ c.filename # ""
    /\ Url(c.filepath, c.filename) \notin created

\* C8: deleteFile on a path that was never created fails with a failure
\* derived from the answer of the metadata GET (not found), not from a
\* precondition conflict: no DELETE is issued and the remote state is
\* unchanged.
C8_DeleteNeverCreated ==
    \A p \in Procs :
        LET c == call[p]
        IN  DeleteOfNeverCreated(c) =>
                /\ c.out.kind = "error"
                /\ c.out.prefix = "Error deleting file: "
                /\ c.out.cause = <<"GET", c.reqs[1].ans.status>>
                /\ (Served(c) => c.out.cause = <<"GET", "404">>)
                /\ Sent(c, "DELETE") = {}
                /\ ~c.wrote

C8_Witness ==
    \E p \in Procs :
        /\ DeleteOfNeverCreated(call[p])
        /\ call[p].out.cause = <<"GET", "404">>
        /\ Len(call[p].reqs) = 1

----------------------------------------------------------------------------
(* Properties of concurrent calls on one path *)

\* the upload ended with a success outcome
Succeeded(c) == c.out.kind \in {"created", "updated"}

\* two uploads with overwrite=true whose metadata GETs were served and gave
\* the same answer: the same revision, or not found both
SameObserved(c, d) ==
    /\ c.op = "upload" /\ c.overwrite
    /\ d.op = "upload" /\ d.overwrite
    /\ Len(c.reqs) >= 1 /\ Len(d.reqs) >= 1
    /\ c.reqs[1].ans.status \in {"ok", "404"}
    /\ c.reqs[1].ans = d.reqs[1].ans

\* C21 (as stated): of two concurrent uploads with overwrite=true to the
\* same path that are based on the same observed state, at most one
\* succeeds and the other ends with an error.
C21_AtMostOneSucceeds ==
    \A p, q \in Procs :
        (p # q /\ SameObserved(call[p], call[q])) =>
            ~(Succeeded(call[p]) /\ Succeeded(call[q]))

\* C21 (amended): an upload whose PUT the remote rejects ends with an error
\* and changes nothing, and two concurrent uploads with overwrite=true
\* based on the same observed state both succeed only when the file
\* existed and one of them stored the very content observed, which leaves
\* the revision as it was; otherwise at most one of them succeeds.
C21_NoSilentLoss ==
    /\ \A p \in Procs :
          LET c == call[p]
          IN  \A i \in Sent(c, "PUT") :
                  c.reqs[i].ans.status \notin {"ok", "pending"} =>
                      /\ c.out.kind = "error"
                      /\ c.out.prefix = "Error uploading file to GitHub: "
                      /\ c.out.cause = <<"PUT", c.reqs[i].ans.status>>
                      /\ ~c.wrote
    /\ \A p, q \in Procs :
          (/\ p # q
           /\ SameObserved(call[p], call[q])
           /\ Succeeded(call[p])
           /\ Succeeded(call[q])) =>
              /\ call[p].reqs[1].ans.status = "ok"
              /\ \E c \in {call[p], call[q]} :
                    Sha(ShaOf(c.fileContent)) = c.reqs[1].ans.sha

C21_Witness ==
    \E p, q \in Procs :
        /\ p # q
        /\ SameObserved(call[p], call[q])
        /\ call[p].reqs[1].ans.status = "ok"
        /\ call[p].fileContent # call[q].fileContent
        /\ call[p].out.kind = "updated"
        /\ call[q].out.kind = "error"
        /\ call[q].out.cause = <<"PUT", "conflict">>
        /\ remote[Url("docs", "a.txt")] = Stored(call[p].fileContent)

\* C22: an upload with overwrite=false never replaces the content of a
\* file that exists at the moment its PUT is applied, whatever other
\* uploads and deletes of the same path run concurrently: the PUT is then
\* rejected and the call fails, so that such an upload ends by creating
\* the file, by the skipped-exists outcome, or by an error.
C22_NoOverwriteNeverReplaces ==
    [][\A p \in Procs :
          LET c == call[p]
          IN  (c.op = "upload" /\ ~c.overwrite /\ c.pc # "idle" /\ call'[p].pc = "idle") =>
                  /\ call'[p].out.kind \in {"created", "skipped", "error"}
                  /\ (c.pc = "up_put" /\ remote[Url(c.filepath, c.filename)].exists) =>
                        /\ remote' = remote
                        /\ call'[p].out.kind = "error"]_vars

C22_Witness ==
    \E p, q \in Procs :
        /\ p # q
        /\ call[p].op = "upload"
        /\ ~call[p].overwrite
        /\ Len(call[p].reqs) = 2
        /\ call[p].reqs[1].ans.status = "404"
        /\ call[p].reqs[2].ans.status = "invalid"
        /\ call[p].out.kind = "error"
        /\ Succeeded(call[q])
        /\ remote[Url("docs", "a.txt")] = Stored(call[q].fileContent)
        /\ call[q].fileContent # call[p].fileContent

----------------------------------------------------------------------------
(* Properties of the readers and of the validation of arguments *)

\* C17: download looks at the inline content before the download url: when
\* the answer holds content it returns the content and not the url, when it
\* holds no content but a url it returns the url, and when it holds neither
\* it fails with an error for that file.
C17_ContentBeforeUrl ==
    \A p \in Procs :
        LET c == call[p]
        IN  (c.op = "download" /\ Len(c.reqs) = 1 /\ c.reqs[1].ans.status = "ok") =>
                LET ans == c.reqs[1].ans
                IN  /\ c.pc = "idle"
                    /\ Truthy(ans.content) =>
                          /\ c.out.kind = "data"
                          /\ c.out.value = ans.content
                    /\ (~Truthy(ans.content) /\ Truthy(ans.download_url)) =>
                          /\ c.out.kind = "url"
                          /\ c.out.value = ans.download_url
                    /\ (~Truthy(ans.content) /\ ~Truthy(ans.download_url)) =>
                          /\ c.out.kind = "error"
                          /\ c.out.prefix = "Error downloading file: "
                          /\ c.out.cause =
                                <<"download", "File content or download URL not found">>
                          /\ c.out.value = Missing

C17_Witness ==
    \E p \in Procs :
        /\ call[p].op = "download"
        /\ Len(call[p].reqs) = 1
        /\ call[p].reqs[1].ans.status = "ok"
        /\ Truthy(call[p].reqs[1].ans.content)
        /\ Truthy(call[p].reqs[1].ans.download_url)
        /\ call[p].out.kind = "data"
        /\ call[p].out.value = Holding(<<"Q">>)

\* a call whose arguments do not pass the validation of its operation
InvalidArguments(c) ==
    \/ c.op = "upload" /\ c.file = <<>>
    \/ /\ c.op \in {"deleteFile", "download", "getContentBase64"}
       /\ (c.filepath = "" \/ c.filename = "")

\* C20: the validation of the arguments comes before every remote request:
\* an upload of empty content, and a deleteFile, download or
\* getContentBase64 with an empty filepath or filename, fail with an error,
\* send no request and leave the remote store as it was.
C20_ValidationFirst ==
    \A p \in Procs :
        LET c == call[p]
        IN  InvalidArguments(c) =>
                /\ c.pc = "idle"
                /\ c.reqs = <<>>
                /\ ~c.wrote
                /\ c.out.kind = "error"
                /\ c.out.cause[1] = c.op
                /\ c.out.cause[2] \in {"File is required",
                                       "Both filepath and filename are required!"}

C20_Witness ==
    \E p \in Procs :
        /\ call[p].op = "download"
        /\ call[p].filepath = ""
        /\ call[p].filename = "a.txt"
        /\ call[p].out.kind = "error"
        /\ call[p].reqs = <<>>
        /\ remote[Url("docs", "a.txt")].exists

----------------------------------------------------------------------------
(* Properties of the clean-up of the payload *)

\* encoded payloads: non-empty strings of characters of the encoding
Payloads == {c \in Contents : c # <<>> /\ \A i \in 1..Len(c) : c[i] \in {"Q", "R"}}

\* transport envelopes: 'data:', a media type or none, and the marker
Envelopes == {Data \o Base64, Data \o Mime \o Base64}

\* C15: an upload of an envelope followed by the payload P sends and stores
\* exactly what an upload of P alone sends and stores, that is P: the
\* clean-up leaves a payload that is already stripped as it is.
C15_EnvelopeStripped ==
    \A p \in Procs :
        LET c == call[p]
        IN  \A P \in Payloads :
                (c.op = "upload" /\ c.file \in {P} \cup {E \o P : E \in Envelopes}) =>
                    /\ FileContent(P) = P
                    /\ FileContent(c.file) = FileContent(P)
                    /\ \A i \in Sent(c, "PUT") :
                          /\ c.reqs[i].content = P
                          /\ c.reqs[i].ans.status = "ok" =>
                                remote[c.reqs[i].url] = Stored(P)

C15_Witness ==
    \E p \in Procs :
        /\ call[p].file = Data \o Mime \o Base64 \o <<"Q">>
        /\ call[p].out.kind = "created"
        /\ call[p].reqs[2].content = <<"Q">>
        /\ remote[Url("docs", "a.txt")] = Stored(<<"Q">>)

\* what is left of a payload once everything up to and including the first
\* marker has been taken away, a payload without the marker being kept whole
Stripped(file) ==
    IF \E i \in 0..Len(file) : OccursAt(file, Base64, i)
    THEN LET first == CHOOSE i \in 0..Len(file) :
                         /\ OccursAt(file, Base64, i)
                         /\ \A k \in 0..(i - 1) : ~OccursAt(file, Base64, k)
         IN  SubSeq(file, first + Len(Base64) + 1, Len(file))
    ELSE file

\* C16: upload strips the payload only when it carries the marker
\* 'base64,': a payload without the marker, one that starts with 'data:'
\* included, is sent unchanged, and a payload with the marker loses exactly
\* the part up to and including the marker.
C16_StripsOnlyAtMarker ==
    \A p \in Procs :
        LET c == call[p]
        IN  c.op = "upload" =>
                \A i \in Sent(c, "PUT") : c.reqs[i].content = Stripped(c.file)

----------------------------------------------------------------------------
(* Properties of listAllFiles and downloadAll *)

RECURSIVE Leaves(_, _)
\* the paths of the leaf files below path, by structural descent
Leaves(listing, path) ==
    IF listing = <<>> THEN <<>>
    ELSE LET e == Head(listing)
         IN  (IF e.type = "file"
              THEN << path \o <<e.name>> >>
              ELSE Leaves(e.children, path \o <<e.name>>))
             \o Leaves(Tail(listing), path)

Range(seq) == {seq[i] : i \in 1..Len(seq)}

\* the remote served every request of the job
ServedJob(j) == \A i \in 1..Len(j.reqs) : j.reqs[i].status = "ok"

Settled(j) == j.status \in {"resolved", "rejected"}

\* C2: for every tree rooted at the requested folder, trees with
\* subdirectories included, downloadAll completes successfully and the
\* archive holds exactly one entry per leaf file, with the name of the file
\* and the raw bytes retrieved for it.
C2_ArchiveHoldsEveryLeaf ==
    \A p \in Procs :
        LET j == job[p]
            want == Leaves(tree, Root)
        IN  (/\ j.op = "downloadAll"
             /\ Settled(j)
             /\ ServedJob(j)
             /\ j.result.cause[1] # "archive") =>
                /\ j.status = "resolved"
                /\ Len(j.archive.entries) = Len(want)
                /\ \A k \in 1..Len(want) :
                      Cardinality({i \in 1..Len(j.archive.entries) :
                                      /\ j.archive.entries[i].data = BytesOf(want[k])
                                      /\ j.archive.entries[i].name = want[k][Len(want[k])]})
                         = 1

\* C9: for every finite tree, listAllFiles returns exactly the leaf files
\* reachable from the root path: every reachable file once, no directory
\* entry, no file twice.
C9_ListAllFilesExact ==
    \A p \in Procs :
        LET j == job[p]
            got == j.result.files
        IN  (j.op = "listAllFiles" /\ j.status = "resolved") =>
                /\ j.result.kind = "files"
                /\ {got[i].path : i \in 1..Len(got)} = Range(Leaves(tree, Root))
                /\ \A i \in 1..Len(got) : got[i].type = "file"
                /\ \A i, k \in 1..Len(got) : got[i].path = got[k].path => i = k

C9_Witness ==
    \E p \in Procs :
        /\ job[p].op = "listAllFiles"
        /\ job[p].status = "resolved"
        /\ Len(job[p].result.files) >= 3
        /\ Len(job[p].reqs) >= 3
        /\ \E i \in 1..Len(job[p].result.files) :
              Len(job[p].result.files[i].path) = Len(Root) + 3

\* C10: the walk is all-or-nothing: if a listing request fails at any
\* depth, listAllFiles rejects and returns no file list, and no listing
\* request is issued after the failing one.
C10_AllOrNothing ==
    \A p \in Procs :
        LET j == job[p]
        IN  j.op = "listAllFiles" =>
                \A i \in 1..Len(j.reqs) :
                    j.reqs[i].status \in {"http", "net"} =>
                        /\ i = Len(j.reqs)
                        /\ j.status = "rejected"
                        /\ j.result.kind = "error"
                        /\ j.result.files = <<>>
                        /\ j.result.cause = <<"GET", j.reqs[i].status>>

C10_Witness ==
    \E p \in Procs :
        /\ job[p].op = "listAllFiles"
        /\ job[p].status = "rejected"
        /\ Len(job[p].reqs) >= 2
        /\ job[p].files # <<>>
        /\ job[p].result.files = <<>>
        /\ Len(job[p].files) < Len(Leaves(tree, Root))

----------------------------------------------------------------------------
(* Properties of the archive download *)

\* the requests of the job for the bytes of a file, in the order sent
FetchReqs(j) == SelectSeq(j.reqs, LAMBDA r : r.what = "fetch")

\* C11: downloadAll resolves with the path of the archive only after the
\* archive has been finalized and the output stream has emitted close;
\* between the return of finalize() and the close event it is unsettled.
C11_ResolvesAfterClose ==
    \A p \in Procs :
        LET j == job[p]
        IN  j.op = "downloadAll" =>
                /\ j.status = "resolved" =>
                      /\ j.archive.finalized
                      /\ j.archive.closed
                      /\ j.result.kind = "zip"
                      /\ j.result.zipFilePath = ZipFilePath(j.storagePath)
                /\ (j.archive.finalized /\ ~j.archive.closed) =>
                      j.status \in {"closing", "rejected"}
                /\ j.result.kind = "zip" => j.status = "resolved"

C11_Witness ==
    \E p \in Procs :
        /\ job[p].op = "downloadAll"
        /\ job[p].status = "resolved"
        /\ job[p].archive.closed
        /\ Len(job[p].archive.entries) = 2
        /\ job[p].result.zipFilePath = <<"downloads", "output.zip">>

\* C12: if the retrieval of one file fails during downloadAll, the call
\* rejects: the archive is never finalized, no later file is retrieved or
\* appended, and the call never resolves with the path of an archive.
C12_FetchFailureAborts ==
    \A p \in Procs :
        LET j == job[p]
        IN  j.op = "downloadAll" =>
                \A i \in 1..Len(j.reqs) :
                    (j.reqs[i].what = "fetch" /\ j.reqs[i].status \in {"http", "net"}) =>
                        /\ i = Len(j.reqs)
                        /\ j.status = "rejected"
                        /\ ~j.archive.finalized
                        /\ ~j.archive.closed
                        /\ Len(j.archive.entries) = Len(FetchReqs(j)) - 1
                        /\ j.result.kind = "error"
                        /\ j.result.prefix = "Error downloading files: "
                        /\ j.result.cause = <<"GET", j.reqs[i].status>>
                        /\ j.result.zipFilePath = <<>>

C12_Witness ==
    \E p \in Procs :
        /\ job[p].op = "downloadAll"
        /\ job[p].status = "rejected"
        /\ Len(job[p].files) = 2
        /\ Len(job[p].archive.entries) = 1
        /\ Len(FetchReqs(job[p])) = 2
        /\ FetchReqs(job[p])[2].status = "net"

\* C13: within one downloadAll call the files are retrieved and appended in
\* the order of the walked list and one at a time: the k-th retrieval is
\* that of the k-th file, it is sent only once the files before it have
\* been appended, and at most one request is in flight.
C13_OneAtATimeInOrder ==
    \A p \in Procs :
        LET j == job[p]
            fetches == FetchReqs(j)
            entries == j.archive.entries
        IN  j.op = "downloadAll" =>
                /\ Len(fetches) <= Len(j.files)
                /\ \A k \in 1..Len(fetches) : fetches[k].url = j.files[k].url
                /\ Len(entries) <= Len(fetches)
                /\ Len(fetches) <= Len(entries) + 1
                /\ \A k \in 1..Len(entries) :
                      /\ entries[k].name = j.files[k].name
                      /\ entries[k].data = BytesOf(j.files[k].url)
                      /\ fetches[k].status = "ok"
                /\ \A i \in 1..Len(j.reqs) :
                      j.reqs[i].status = "pending" => i = Len(j.reqs)

C13_Witness ==
    \E p \in Procs :
        /\ job[p].op = "downloadAll"
        /\ job[p].status = "fetching"
        /\ Len(job[p].files) = 2
        /\ Len(job[p].archive.entries) = 1
        /\ Len(FetchReqs(job[p])) = 2
        /\ job[p].files[1].name = "b.txt"

\* the call holds the output stream it opened and is still writing to it
Writing(j) ==
    /\ j.op = "downloadAll"
    /\ j.status \in {"fetching", "closing"}
    /\ j.archive.open
    /\ ~j.archive.closed

\* C14: the file the archive is written to is owned by one downloadAll call
\* at a time: no two concurrent calls write to the same file.
C14_SinkExclusive ==
    \A p, q \in Procs :
        (p # q /\ Writing(job[p]) /\ Writing(job[q])) =>
            job[p].archive.zipFilePath # job[q].archive.zipFilePath

\* the names and paths of the files of a result, in its order
NamesAndPaths(files) == [k \in 1..Len(files) |-> <<files[k].name, files[k].path>>]

\* C24: the walk of downloadAll (listFilesInDirectory) and listAllFiles are
\* equivalent: on every tree, all requests being served, both succeed or
\* both fail, and when they succeed they return the same files, by name
\* and path, in the same order.
C24_WalksEquivalent ==
    \A p, q \in Procs :
        LET a == job[p]
            b == job[q]
        IN  (/\ a.op = "listAllFiles"
             /\ b.op = "listFilesInDirectory"
             /\ Settled(a) /\ ServedJob(a)
             /\ Settled(b) /\ ServedJob(b)) =>
                /\ a.status = b.status
                /\ NamesAndPaths(a.result.files) = NamesAndPaths(b.result.files)

\* C23: every downloadAll call settles in the end: once the list of files
\* is there and the output stream is open, the promise resolves or rejects
\* in every execution, those in which the output stream or the archiver
\* reports an error before or after finalize included.
C23_EventuallySettles ==
    \A p \in Procs : job[p].archive.open ~> Settled(job[p])

----------------------------------------------------------------------------
(* Properties of the order and the names of the walked files *)

\* is the sequence s an initial part of the sequence t
IsPrefix(s, t) == Len(s) <= Len(t) /\ SubSeq(t, 1, Len(s)) = s

\* the paths of the files collected so far
PathsOf(files) == [k \in 1..Len(files) |-> files[k].path]

\* C18: the walk is depth-first and keeps the order of the listings: the
\* files are collected in the order of a structural descent of the tree in
\* which siblings keep the order of their listing and the files below a
\* directory stand at the place of that directory; the result is not
\* sorted.
C18_ListingOrderKept ==
    \A p \in Procs :
        LET j == job[p]
        IN  j.op = "listAllFiles" =>
                /\ IsPrefix(PathsOf(j.files), Leaves(tree, Root))
                /\ j.status = "resolved" =>
                      PathsOf(j.result.files) = Leaves(tree, Root)

C18_Witness ==
    \E p \in Procs :
        /\ job[p].op = "listAllFiles"
        /\ job[p].status = "resolved"
        /\ Len(tree) = 3
        /\ tree[1].name = "b.txt"
        /\ tree[2].type = "dir"
        /\ tree[3].name = "a.txt"
        /\ Len(job[p].result.files) = 4
        /\ job[p].result.files[1].name = "b.txt"
        /\ job[p].result.files[4].name = "a.txt"

====
